---- MODULE Spec2Model ----
(***************************************************************************)
(* Model of the code extractor (src/input.txt, class CodeExtractor) and of *)
(* its driver (src/src/index.ts).                                          *)
(*                                                                         *)
(* Text is modelled character by character: a string is a sequence of      *)
(* one-character strings, so that trim, split, join, includes and the      *)
(* regular expressions of the source are computed as the source computes   *)
(* them.                                                                   *)
(***************************************************************************)
EXTENDS Integers, Sequences, FiniteSets, TLC

(***************************************************************************)
(* Characters and the string primitives of JavaScript used by the source.  *)
(***************************************************************************)

\* The class \w of a JavaScript regular expression: [A-Za-z0-9_].
WordChars ==
  {"a","b","c","d","e","f","g","h","i","j","k","l","m","n","o","p","q","r",
   "s","t","u","v","w","x","y","z",
   "A","B","C","D","E","F","G","H","I","J","K","L","M","N","O","P","Q","R",
   "S","T","U","V","W","X","Y","Z",
   "0","1","2","3","4","5","6","7","8","9","_"}

\* The class \s (and what String.prototype.trim removes), as far as the
\* modelled texts use it.
SpaceChars == {" ", "\t", "\n", "\r"}

IsWord(c) == c \in WordChars
IsSpace(c) == c \in SpaceChars
\* [\w-]
IsSeg1(c) == IsWord(c) \/ c = "-"
\* [\w/-]
IsSeg2(c) == IsWord(c) \/ c = "-" \/ c = "/"

\* s.startsWith(p) at 1-based position i.
HasAt(s, i, p) ==
  /\ i >= 1
  /\ i + Len(p) - 1 <= Len(s)
  /\ SubSeq(s, i, i + Len(p) - 1) = p

StartsWith(s, p) == HasAt(s, 1, p)

\* First position >= from at which p occurs in s, 0 when there is none
\* (String.prototype.indexOf, 1-based).
RECURSIVE IndexOf(_, _, _)
IndexOf(s, p, from) ==
  IF from + Len(p) - 1 > Len(s) THEN 0
  ELSE IF HasAt(s, from, p) THEN from
  ELSE IndexOf(s, p, from + 1)

Includes(s, p) == IndexOf(s, p, 1) # 0

\* String.prototype.trim.
RECURSIVE TrimStart(_)
TrimStart(s) ==
  IF s # <<>> /\ IsSpace(Head(s)) THEN TrimStart(Tail(s)) ELSE s

RECURSIVE TrimEnd(_)
TrimEnd(s) ==
  IF s # <<>> /\ IsSpace(s[Len(s)]) THEN TrimEnd(SubSeq(s, 1, Len(s) - 1)) ELSE s

Trim(s) == TrimEnd(TrimStart(s))

\* content.split('\n'): always at least one element.
RECURSIVE SplitNL(_)
\* s cut at its first newline, which is at position k (0: there is none).
SplitNLAt(s, k) ==
  IF k = 0 THEN <<s>>
  ELSE <<SubSeq(s, 1, k - 1)>> \o SplitNL(SubSeq(s, k + 1, Len(s)))

SplitNL(s) == SplitNLAt(s, IndexOf(s, <<"\n">>, 1))

\* parts.join('\n').
RECURSIVE JoinNL(_)
JoinNL(parts) ==
  IF parts = <<>> THEN <<>>
  ELSE IF Len(parts) = 1 THEN parts[1]
  ELSE parts[1] \o <<"\n">> \o JoinNL(Tail(parts))

\* End (inclusive) of the maximal run of a character class starting at
\* position i; i - 1 when the character at i is not in the class.
RECURSIVE RunSeg1(_, _)
RunSeg1(s, i) == IF i <= Len(s) /\ IsSeg1(s[i]) THEN RunSeg1(s, i + 1) ELSE i - 1
RECURSIVE RunSeg2(_, _)
RunSeg2(s, i) == IF i <= Len(s) /\ IsSeg2(s[i]) THEN RunSeg2(s, i + 1) ELSE i - 1
RECURSIVE RunWord(_, _)
RunWord(s, i) == IF i <= Len(s) /\ IsWord(s[i]) THEN RunWord(s, i + 1) ELSE i - 1
RECURSIVE RunSpace(_, _)
RunSpace(s, i) == IF i <= Len(s) /\ IsSpace(s[i]) THEN RunSpace(s, i + 1) ELSE i - 1

(***************************************************************************)
(* Path Validator and Comment Classifier.                                  *)
(***************************************************************************)

\* The sub-expression [\w-]+\/[\w/-]+\.\w+ shared by PATH_PATTERNS and
\* isValidPath, matched at position i: the position of its last character,
\* or 0 when it does not match there.  Each quantifier is greedy and is
\* followed by a character outside its class, so the only run that can
\* match is the maximal one.  e1, e2, e3 are the ends of the three runs.
ShapeExt(e2, e3) == IF e3 >= e2 + 2 THEN e3 ELSE 0

ShapeRest(s, e1, e2) ==
  IF e2 >= e1 + 2 /\ HasAt(s, e2 + 1, <<".">>)
  THEN ShapeExt(e2, RunWord(s, e2 + 2))
  ELSE 0

ShapeFirst(s, i, e1) ==
  IF e1 >= i /\ HasAt(s, e1 + 1, <<"/">>)
  THEN ShapeRest(s, e1, RunSeg2(s, e1 + 2))
  ELSE 0

PathShapeEnd(s, i) == ShapeFirst(s, i, RunSeg1(s, i))

isValidPath(path) ==
  /\ PathShapeEnd(path, 1) = Len(path)
  /\ path # <<>>
  /\ ~Includes(path, <<".", ".">>)
  /\ ~StartsWith(path, <<"/">>)
  /\ ~Includes(path, <<"\\">>)

NoMatch == [matched |-> FALSE, path |-> <<>>, hasDesc |-> FALSE, desc |-> <<>>]

\* The optional group (?:\s*:\s*(.+))? of the first pattern, tried right
\* after the path: c is the position after the white space that follows the
\* path, d the position after the white space that follows the colon.  The
\* line holds no line terminator (it is an element of split('\n'), trimmed),
\* so (.+) runs to the end of the line; when nothing but white space follows
\* the colon, the greedy \s* gives back its last character to (.+).
DescFrom(s, c, d) ==
  IF ~HasAt(s, c, <<":">>) THEN [has |-> FALSE, desc |-> <<>>]
  ELSE IF d <= Len(s) THEN [has |-> TRUE, desc |-> SubSeq(s, d, Len(s))]
  ELSE IF Len(s) > c THEN [has |-> TRUE, desc |-> <<s[Len(s)]>>]
  ELSE [has |-> FALSE, desc |-> <<>>]

DescColon(s, c) == DescFrom(s, c, RunSpace(s, c + 1) + 1)

DescAt(s, i) == DescColon(s, RunSpace(s, i) + 1)

\* A match whose path is s[p..e], with the description g.
MatchOf(s, p, e, g) ==
  [matched |-> TRUE, path |-> SubSeq(s, p, e), hasDesc |-> g.has, desc |-> g.desc]

\* The path of a pattern expected at position p, e its end (0: no path).
PathThenDesc(s, p, e) ==
  IF e # 0 THEN MatchOf(s, p, e, DescAt(s, e + 1)) ELSE NoMatch

PathOnly(s, p, e) ==
  IF e # 0 THEN MatchOf(s, p, e, [has |-> FALSE, desc |-> <<>>]) ELSE NoMatch

Pattern1From(s, p) == PathThenDesc(s, p, PathShapeEnd(s, p))

\* PATH_PATTERNS[0] anchored at position i.
Pattern1At(s, i) ==
  IF HasAt(s, i, <<"/", "/">>)
  THEN Pattern1From(s, RunSpace(s, i + 2) + 1)
  ELSE NoMatch

DirectivePath(s, p) == PathOnly(s, p, PathShapeEnd(s, p))

\* The keyword of a directive ends before position w; the path follows the
\* white space after it, which is at least one character when plus.
DirectiveSpace(s, w, p, plus) ==
  IF plus => p > w THEN DirectivePath(s, p) ELSE NoMatch

DirectiveKeyword(s, k, keyword, plus) ==
  IF HasAt(s, k, keyword)
  THEN DirectiveSpace(s, k + Len(keyword),
                      RunSpace(s, k + Len(keyword)) + 1, plus)
  ELSE NoMatch

\* PATH_PATTERNS[1] and PATH_PATTERNS[2] anchored at position i: "//", white
\* space, the keyword, white space, the path.
DirectiveAt(s, i, keyword, plus) ==
  IF HasAt(s, i, <<"/", "/">>)
  THEN DirectiveKeyword(s, RunSpace(s, i + 2) + 1, keyword, plus)
  ELSE NoMatch

Pattern2At(s, i) == DirectiveAt(s, i, <<"@", "f", "i", "l", "e">>, TRUE)
Pattern3At(s, i) ==
  DirectiveAt(s, i, <<"f", "i", "l", "e", "p", "a", "t", "h", ":">>, FALSE)

PatternAt(n, s, i) ==
  IF n = 1 THEN Pattern1At(s, i)
  ELSE IF n = 2 THEN Pattern2At(s, i)
  ELSE Pattern3At(s, i)

\* pattern.exec(line) of a pattern without the g flag: the leftmost position
\* at which the pattern matches.
RECURSIVE PatternExec(_, _, _)
PatternTry(n, s, i, m) ==
  IF m.matched THEN m ELSE PatternExec(n, s, i + 1)

PatternExec(n, s, i) ==
  IF i > Len(s) THEN NoMatch ELSE PatternTry(n, s, i, PatternAt(n, s, i))

NumPatterns == 3

NotPath(hasComment, comment) ==
  [isPath |-> FALSE, path |-> <<>>, hasComment |-> hasComment, comment |-> comment]

\* The for loop of parseComment from pattern n on; m is pattern n's match.
RECURSIVE TryPatterns(_, _)
\* Mutant: no validation gate; the text of the comment is taken as the path.
TryMatchUnvalidated(line, n, m) ==
  IF Len(line) > 2
  THEN [isPath |-> TRUE, path |-> Trim(SubSeq(line, 3, Len(line))),
        hasComment |-> FALSE, comment |-> <<>>]
  ELSE TryPatterns(line, n + 1)

TryMatch(line, n, m) ==
  IF m.matched /\ isValidPath(m.path)
  THEN [isPath |-> TRUE, path |-> m.path,
        hasComment |-> m.hasDesc, comment |-> m.desc]
  ELSE TryPatterns(line, n + 1)

TryPatterns(line, n) ==
  IF n > NumPatterns
  THEN NotPath(TRUE, Trim(SubSeq(line, 3, Len(line))))
  ELSE TryMatch(line, n, PatternExec(n, line, 1))

\* parseComment after "line = line.trim()".
ParseTrimmed(line) ==
  IF ~StartsWith(line, <<"/", "/">>) THEN NotPath(FALSE, <<>>)
  ELSE TryPatterns(line, 1)

\* parseComment(line).  hasComment is FALSE where the source leaves comment
\* undefined.
parseComment(rawLine) == ParseTrimmed(Trim(rawLine))

(***************************************************************************)
(* Paths and the Language Detector.                                        *)
(***************************************************************************)

\* s.split('/').
RECURSIVE SplitSlash(_)
SplitSlashAt(s, k) ==
  IF k = 0 THEN <<s>>
  ELSE <<SubSeq(s, 1, k - 1)>> \o SplitSlash(SubSeq(s, k + 1, Len(s)))

SplitSlash(s) == SplitSlashAt(s, IndexOf(s, <<"/">>, 1))

RECURSIVE JoinSlash(_)
JoinSlash(parts) ==
  IF parts = <<>> THEN <<>>
  ELSE IF Len(parts) = 1 THEN parts[1]
  ELSE parts[1] \o <<"/">> \o JoinSlash(Tail(parts))

\* The segment walk of path.normalize (POSIX) for a relative path: empty and
\* "." segments are dropped, ".." removes the segment before it, or stays
\* when there is none to remove.
RECURSIVE NormalizeSegments(_, _)
NormalizeSegments(segs, acc) ==
  IF segs = <<>> THEN acc
  ELSE IF Head(segs) = <<>> \/ Head(segs) = <<".">>
  THEN NormalizeSegments(Tail(segs), acc)
  ELSE IF Head(segs) = <<".", ".">> /\ acc # <<>> /\ acc[Len(acc)] # <<".", ".">>
  THEN NormalizeSegments(Tail(segs), SubSeq(acc, 1, Len(acc) - 1))
  ELSE NormalizeSegments(Tail(segs), Append(acc, Head(segs)))

\* An empty result of path.normalize is ".".
DotIfEmpty(segs) == IF segs = <<>> THEN <<".">> ELSE JoinSlash(segs)

\* path.join(dir, rel) of Node (POSIX) for a relative dir: the two are joined
\* by "/" and the result is normalized.
pathJoin(dir, rel) ==
  DotIfEmpty(NormalizeSegments(
    SplitSlash(IF dir = <<>> THEN rel
               ELSE IF rel = <<>> THEN dir
               ELSE dir \o <<"/">> \o rel),
    <<>>))

LastOf(segs) == segs[Len(segs)]

\* path.basename(p): the last segment.
pathBasename(p) == LastOf(SplitSlash(p))

\* Position of the last "." of s at or before i, 0 when there is none.
RECURSIVE LastDot(_, _)
LastDot(s, i) ==
  IF i < 1 THEN 0 ELSE IF s[i] = "." THEN i ELSE LastDot(s, i - 1)

ExtFrom(b, k) == IF k <= 1 THEN <<>> ELSE SubSeq(b, k, Len(b))

ExtOfBasename(b) == ExtFrom(b, LastDot(b, Len(b)))

\* path.extname(p): from the last "." of the basename, empty when there is
\* none or when the basename starts with its only ".".
pathExtname(p) == ExtOfBasename(pathBasename(p))

\* LANGUAGE_EXTENSIONS, in insertion order: <<language, extension>>.
LANGUAGE_EXTENSIONS ==
  << <<<<"t", "y", "p", "e", "s", "c", "r", "i", "p", "t">>,
       <<".", "t", "s">>>>,
     <<<<"j", "a", "v", "a", "s", "c", "r", "i", "p", "t">>,
       <<".", "j", "s">>>>,
     <<<<"p", "y", "t", "h", "o", "n">>,
       <<".", "p", "y">>>>,
     <<<<"j", "a", "v", "a">>,
       <<".", "j", "a", "v", "a">>>>,
     <<<<"c", "p", "p">>,
       <<".", "c", "p", "p">>>>,
     <<<<"c", "+", "+">>,
       <<".", "c", "p", "p">>>>,
     <<<<"c", "#">>,
       <<".", "c", "s">>>>,
     <<<<"r", "u", "s", "t">>,
       <<".", "r", "s">>>>,
     <<<<"g", "o">>,
       <<".", "g", "o">>>>,
     <<<<"r", "u", "b", "y">>,
       <<".", "r", "b">>>>,
     <<<<"p", "h", "p">>,
       <<".", "p", "h", "p">>>>,
     <<<<"h", "t", "m", "l">>,
       <<".", "h", "t", "m", "l">>>>,
     <<<<"c", "s", "s">>,
       <<".", "c", "s", "s">>>>,
     <<<<"s", "q", "l">>,
       <<".", "s", "q", "l">>>>,
     <<<<"y", "a", "m", "l">>,
       <<".", "y", "m", "l">>>>,
     <<<<"j", "s", "o", "n">>,
       <<".", "j", "s", "o", "n">>>>,
     <<<<"x", "m", "l">>,
       <<".", "x", "m", "l">>>>,
     <<<<"m", "a", "r", "k", "d", "o", "w", "n">>,
       <<".", "m", "d">>>>,
     <<<<"s", "h", "e", "l", "l">>,
       <<".", "s", "h">>>>,
     <<<<"b", "a", "s", "h">>,
       <<".", "s", "h">>>>,
     <<<<"z", "s", "h">>,
       <<".", "s", "h">>>>,
     <<<<"p", "o", "w", "e", "r", "s", "h", "e", "l", "l">>,
       <<".", "p", "s", "1">>>> >>

\* The generic plain-text language.
Txt == <<"t", "x", "t">>

\* The for loop of detectLanguageFromPath from entry n on.
RECURSIVE LookupExtension(_, _)
LookupExtension(dotExt, n) ==
  IF n > Len(LANGUAGE_EXTENSIONS) THEN Txt
  ELSE IF LANGUAGE_EXTENSIONS[n][2] = dotExt THEN LANGUAGE_EXTENSIONS[n][1]
  ELSE LookupExtension(dotExt, n + 1)

\* detectLanguageFromPath(filePath): ext is extname without its dot, and
\* an entry matches when its extension is "." followed by ext.
Slice1(e) == IF e = <<>> THEN <<>> ELSE Tail(e)

detectLanguageFromPath(filePath) ==
  LookupExtension(<<".">> \o Slice1(pathExtname(filePath)), 1)

\* detectLanguage(content): the ordered list of characteristic substrings.
detectLanguage(text) ==
  IF Includes(text, <<"i", "m", "p", "o", "r", "t", " ", "{", " ", "u", "s", "e", "S", "t", "a", "t", "e", " ", "}">>) THEN <<"t", "y", "p", "e", "s", "c", "r", "i", "p", "t">>
  ELSE IF Includes(text, <<"d", "e", "f", " ">>) THEN <<"p", "y", "t", "h", "o", "n">>
  ELSE IF Includes(text, <<"p", "u", "b", "l", "i", "c", " ", "c", "l", "a", "s", "s", " ">>) THEN <<"j", "a", "v", "a">>
  ELSE IF Includes(text, <<"<", "?", "p", "h", "p">>) THEN <<"p", "h", "p">>
  ELSE IF Includes(text, <<"<", "!", "D", "O", "C", "T", "Y", "P", "E", " ", "h", "t", "m", "l", ">">>) THEN <<"h", "t", "m", "l">>
  ELSE Txt

(***************************************************************************)
(* Block Segmenter: splitIntoCodeBlocks.                                   *)
(***************************************************************************)

\* The backquote character U+0060.  A TLA+ string literal admits no
\* backquote, so the character is written as this token; like every other
\* character it is one element of a text.
Backquote == "BACKQUOTE"

Fence == <<Backquote, Backquote, Backquote>>

\* The local variables of splitIntoCodeBlocks before its loop.  currentPath
\* is <<>> where the source has null: a declared path is never empty, and
\* the source only tests currentPath for truthiness.
SegInit ==
  [blocks |-> <<>>, currentPath |-> <<>>, currentContent |-> <<>>,
   inCodeBlock |-> FALSE, codeBlockContent |-> <<>>]

\* Mutant: the content of a block is not trimmed.
PushBlockUntrimmed(st) ==
  Append(st.blocks,
         [path |-> st.currentPath, content |-> JoinNL(st.currentContent)])

\* blocks.push({path: currentPath, content: currentContent.join('\n').trim()})
PushBlock(st) ==
  Append(st.blocks,
         [path |-> st.currentPath, content |-> Trim(JoinNL(st.currentContent))])

\* The branch of the loop body for a line that starts (trimmed) with ```.
FenceLine(st) ==
  IF st.inCodeBlock
  THEN [st EXCEPT
          !.currentContent =
             IF st.currentPath # <<>> THEN Append(@, st.codeBlockContent) ELSE @,
          !.codeBlockContent = <<>>,
          !.inCodeBlock = FALSE]
  ELSE [st EXCEPT !.inCodeBlock = TRUE]

\* The branch for a line inside a code block.
InsideLine(st, line) ==
  [st EXCEPT !.codeBlockContent = @ \o line \o <<"\n">>]

\* The branch for a line outside a code block, the line classified as
\* parsed: a path declaration saves the previous block if it exists.
Classified(st, line, parsed) ==
  IF parsed.isPath
  THEN [st EXCEPT
          !.blocks =
             IF st.currentPath # <<>> /\ Len(st.currentContent) > 0
             THEN PushBlock(st) ELSE @,
          !.currentPath = parsed.path,
          !.currentContent =
             (IF st.currentPath # <<>> /\ Len(st.currentContent) > 0
              THEN <<>> ELSE @)
             \o (IF parsed.hasComment /\ parsed.comment # <<>>
                 THEN << <<"/", "/", " ">> \o parsed.comment >>
                 ELSE <<>>)]
  ELSE IF st.currentPath # <<>>
  THEN [st EXCEPT !.currentContent = Append(@, line)]
  ELSE st

OutsideLine(st, line) == Classified(st, line, parseComment(line))

\* Mutant: the line is classified before the code block test.
SegStepClassifyFirst(st, line) ==
  IF StartsWith(Trim(line), Fence) THEN FenceLine(st)
  ELSE IF parseComment(line).isPath THEN OutsideLine(st, line)
  ELSE IF st.inCodeBlock THEN InsideLine(st, line)
  ELSE OutsideLine(st, line)

\* One iteration of the for loop of splitIntoCodeBlocks.
SegStep(st, line) ==
  IF StartsWith(Trim(line), Fence) THEN FenceLine(st)
  ELSE IF st.inCodeBlock THEN InsideLine(st, line)
  ELSE OutsideLine(st, line)

\* "Save the last block", after the loop: the blocks returned.
SegFinish(st) ==
  IF st.currentPath # <<>> /\ Len(st.currentContent) > 0
  THEN PushBlock(st)
  ELSE st.blocks

\* processCodeBlock(block, defaultLanguage); hasDefault is FALSE where the
\* source passes no defaultLanguage.  An empty default is falsy.
FileInfo(block, filePath, language) ==
  [language |-> language,
   fileName |-> pathBasename(filePath),
   filePath |-> filePath,
   content |-> block.content,
   type |-> "code-block"]

\* Mutant: the language always comes from the extension of the path.
processCodeBlockByExtension(dir, block, hasDefault, defaultLanguage) ==
  FileInfo(block, pathJoin(dir, block.path), detectLanguageFromPath(block.path))

processCodeBlock(dir, block, hasDefault, defaultLanguage) ==
  FileInfo(block,
           pathJoin(dir, block.path),
           IF hasDefault /\ defaultLanguage # <<>>
           THEN defaultLanguage
           ELSE detectLanguageFromPath(block.path))

(***************************************************************************)
(* The global regular expressions of the Artifact Extractor.  A regular    *)
(* expression with the g flag keeps lastIndex (0-based) between calls of   *)
(* exec: the search starts there, a match leaves it after the match, a     *)
(* failure resets it to 0.                                                 *)
(***************************************************************************)

ArtifactOpen == <<"<", "a", "n", "t", "A", "r", "t", "i", "f", "a", "c", "t">>
ArtifactClose == <<"<", "/", "a", "n", "t", "A", "r", "t", "i", "f", "a", "c", "t", ">">>

NoArtifact == [found |-> FALSE, m0 |-> <<>>, m1 |-> <<>>, lastIndex |-> 0]

\* ARTIFACT_REGEX anchored at position i: the opening tag runs to the first
\* ">" at gt ([^>]* cannot cross one), the lazy group to the first closing
\* tag at cl.
ArtifactClosed(s, i, gt, cl) ==
  IF cl # 0
  THEN [found |-> TRUE, m0 |-> SubSeq(s, i, cl + Len(ArtifactClose) - 1),
        m1 |-> SubSeq(s, gt + 1, cl - 1),
        lastIndex |-> cl + Len(ArtifactClose) - 1]
  ELSE NoArtifact

ArtifactOpened(s, i, gt) ==
  IF gt # 0
  THEN ArtifactClosed(s, i, gt, IndexOf(s, ArtifactClose, gt + 1))
  ELSE NoArtifact

ArtifactAt(s, i) ==
  IF HasAt(s, i, ArtifactOpen)
  THEN ArtifactOpened(s, i, IndexOf(s, <<">">>, i + Len(ArtifactOpen)))
  ELSE NoArtifact

RECURSIVE ArtifactSearch(_, _)
ArtifactTry(s, i, m) == IF m.found THEN m ELSE ArtifactSearch(s, i + 1)

ArtifactSearch(s, i) ==
  IF i > Len(s) THEN NoArtifact ELSE ArtifactTry(s, i, ArtifactAt(s, i))

\* Mutant: a failed exec leaves lastIndex where it was.
ArtifactExecKeepsIndex(s, lastIndex) ==
  IF lastIndex > Len(s) \/ ~ArtifactSearch(s, lastIndex + 1).found
  THEN [NoArtifact EXCEPT !.lastIndex = lastIndex]
  ELSE ArtifactSearch(s, lastIndex + 1)

\* ARTIFACT_REGEX.exec(s) with the regular expression's lastIndex at
\* lastIndex: the match and the new lastIndex.
ArtifactExec(s, lastIndex) ==
  IF lastIndex > Len(s) THEN NoArtifact ELSE ArtifactSearch(s, lastIndex + 1)

NoAttr == [found |-> FALSE, name |-> <<>>, value |-> <<>>, lastIndex |-> 0]

\* ARTIFACT_ATTRS_REGEX anchored at position i: (\w+) is the maximal run
\* of word characters, ending at e; the lazy value runs to the first double
\* quote, at q.
AttrQuoted(s, i, e, q) ==
  IF q # 0
  THEN [found |-> TRUE, name |-> SubSeq(s, i, e),
        value |-> SubSeq(s, e + 3, q - 1), lastIndex |-> q]
  ELSE NoAttr

AttrNamed(s, i, e) ==
  IF e >= i /\ HasAt(s, e + 1, <<"=", "\"">>)
  THEN AttrQuoted(s, i, e, IndexOf(s, <<"\"">>, e + 3))
  ELSE NoAttr

AttrAt(s, i) == AttrNamed(s, i, RunWord(s, i))

RECURSIVE AttrSearch(_, _)
AttrTry(s, i, a) == IF a.found THEN a ELSE AttrSearch(s, i + 1)

AttrSearch(s, i) ==
  IF i > Len(s) THEN NoAttr ELSE AttrTry(s, i, AttrAt(s, i))

AttrExec(s, lastIndex) ==
  IF lastIndex > Len(s) THEN NoAttr ELSE AttrSearch(s, lastIndex + 1)

\* The inner while loop of extractFiles over the text it is given: the
\* attribute mapping (a later pair of the same name overwrites) and the
\* lastIndex the loop leaves in ARTIFACT_ATTRS_REGEX.
RECURSIVE AttrLoop(_, _, _)
AttrNext(s, attributes, a) ==
  IF ~a.found THEN [attributes |-> attributes, lastIndex |-> a.lastIndex]
  ELSE AttrLoop(s, a.lastIndex, (a.name :> a.value) @@ attributes)

AttrLoop(s, lastIndex, attributes) ==
  AttrNext(s, attributes, AttrExec(s, lastIndex))

\* The text the attributes of a match are parsed from: match[0].
AttrSource(m) == m.m0

TypeAttr == <<"t", "y", "p", "e">>
LanguageAttr == <<"l", "a", "n", "g", "u", "a", "g", "e">>
CodeWord == <<"c", "o", "d", "e">>
HtmlWord == <<"h", "t", "m", "l">>

\* attributes.type?.includes('code') || attributes.type?.includes('html')
IsCodeArtifact(attributes) ==
  /\ TypeAttr \in DOMAIN attributes
  /\ \/ Includes(attributes[TypeAttr], CodeWord)
     \/ Includes(attributes[TypeAttr], HtmlWord)

\* attributes.language || this.detectLanguage(artifactContent)
ArtifactLanguage(attributes, artifactContent) ==
  IF LanguageAttr \in DOMAIN attributes /\ attributes[LanguageAttr] # <<>>
  THEN attributes[LanguageAttr]
  ELSE detectLanguage(artifactContent)

\* The loop "for (const block of ...)" of extractFiles from block n on:
\* files and processedPaths after it.
RECURSIVE AddBlocks(_, _, _, _, _, _)
\* Mutant: the dedup key is the declared path, not the resolved path.
AddBlockByDeclaredPath(dir, blks, n, hasDefault, defaultLanguage, acc, fileInfo) ==
  IF blks[n].path \notin acc.processedPaths
  THEN AddBlocks(dir, blks, n + 1, hasDefault, defaultLanguage,
                 [files |-> Append(acc.files, fileInfo),
                  processedPaths |-> acc.processedPaths \cup {blks[n].path}])
  ELSE AddBlocks(dir, blks, n + 1, hasDefault, defaultLanguage, acc)

\* Mutant: a later fragment replaces the record at its resolved path.
AddBlockLastWins(dir, blks, n, hasDefault, defaultLanguage, acc, fileInfo) ==
  IF fileInfo.filePath \notin acc.processedPaths
  THEN AddBlocks(dir, blks, n + 1, hasDefault, defaultLanguage,
                 [files |-> Append(acc.files, fileInfo),
                  processedPaths |-> acc.processedPaths \cup {fileInfo.filePath}])
  ELSE AddBlocks(dir, blks, n + 1, hasDefault, defaultLanguage,
                 [files |-> [k \in 1..Len(acc.files) |->
                               IF acc.files[k].filePath = fileInfo.filePath
                               THEN fileInfo ELSE acc.files[k]],
                  processedPaths |-> acc.processedPaths])

AddBlock(dir, blks, n, hasDefault, defaultLanguage, acc, fileInfo) ==
  IF fileInfo.filePath \notin acc.processedPaths
  THEN AddBlocks(dir, blks, n + 1, hasDefault, defaultLanguage,
                 [files |-> Append(acc.files, fileInfo),
                  processedPaths |-> acc.processedPaths \cup {fileInfo.filePath}])
  ELSE AddBlocks(dir, blks, n + 1, hasDefault, defaultLanguage, acc)

AddBlocks(dir, blks, n, hasDefault, defaultLanguage, acc) ==
  IF n > Len(blks) THEN acc
  ELSE AddBlock(dir, blks, n, hasDefault, defaultLanguage, acc,
                processCodeBlock(dir, blks[n], hasDefault, defaultLanguage))

(***************************************************************************)
(* Input documents: lines of the kinds the pipeline distinguishes, joined  *)
(* by newlines.                                                            *)
(***************************************************************************)

\* inline path declaration
DeclRs ==
  <<"/", "/", " ", "a", "/", "b", ".", "r", "s">>
\* inline declaration of another declared path that joins to the same resolved path, with a description
DeclRsAgain ==
  <<"/", "/", " ", "a", "/", "/", "b", ".", "r", "s", ":", " ", "d">>
\* @file directive, extension absent from the language table
DeclFile ==
  <<"/", "/", " ", "@", "f", "i", "l", "e", " ", "c", "/", "d", ".", "z", "z">>
\* filepath: directive naming a file whose whole name is .rs
DeclDotfile ==
  <<"/", "/", " ", "f", "i", "l", "e", "p", "a", "t", "h", ":", " ", "c", "/", "d", "/", ".", "r", "s">>
\* candidate path with a parent-directory token
DeclUp ==
  <<"/", "/", " ", ".", ".", "/", "a", "/", "b", ".", "r", "s">>
\* candidate path with a leading slash
DeclRoot ==
  <<"/", "/", " ", "/", "a", "/", "b", ".", "r", "s">>
\* candidate path with a backslash
DeclBackslash ==
  <<"/", "/", " ", "a", "\\", "b", "/", "c", ".", "r", "s">>
\* content line (sniffed as python)
CodeDef ==
  <<"d", "e", "f", " ", "f">>
\* indented content line
CodeIndented ==
  <<" ", " ", "y">>
\* blank line
Blank ==
  <<>>
\* fence marker with a language tag
FenceTs ==
  <<Backquote, Backquote, Backquote, "t", "s">>
\* opening tag of a code artifact
OpenCode ==
  <<"<", "a", "n", "t", "A", "r", "t", "i", "f", "a", "c", "t", " ", "t", "y", "p", "e", "=", "\"", "c", "o", "d", "e", "\"", ">">>
\* opening tag of a code artifact with a language
OpenCodeGo ==
  <<"<", "a", "n", "t", "A", "r", "t", "i", "f", "a", "c", "t", " ", "t", "y", "p", "e", "=", "\"", "c", "o", "d", "e", "\"", " ", "l", "a", "n", "g", "u", "a", "g", "e", "=", "\"", "g", "o", "\"", ">">>
\* opening tag of a prose artifact
OpenMarkdown ==
  <<"<", "a", "n", "t", "A", "r", "t", "i", "f", "a", "c", "t", " ", "t", "y", "p", "e", "=", "\"", "t", "e", "x", "t", "/", "m", "a", "r", "k", "d", "o", "w", "n", "\"", ">">>
\* closing tag
CloseTag ==
  <<"<", "/", "a", "n", "t", "A", "r", "t", "i", "f", "a", "c", "t", ">">>
\* a whole code artifact span on one line, declaring a file with a description
SpanLine ==
  <<"<", "a", "n", "t", "A", "r", "t", "i", "f", "a", "c", "t", " ", "t", "y", "p", "e", "=", "\"", "c", "o", "d", "e", "\"", ">", "/", "/", " ", "c", "/", "d", ".", "z", "z", ":", " ", "d", "<", "/", "a", "n", "t", "A", "r", "t", "i", "f", "a", "c", "t", ">">>
\* line that starts with a fence marker and carries text after the tag
FenceText ==
  <<Backquote, Backquote, Backquote, "t", "s", " ", "x">>
\* comment whose leading text is prose and that holds a URL
DeclUrl ==
  <<"/", "/", " ", "s", "e", "e", " ", "h", "t", "t", "p", ":", "/", "/", "h", "/", "p", ".", "r", "s">>
\* content line holding name="value" text
AttrText ==
  <<"t", "y", "p", "e", "=", "\"", "c", "o", "d", "e", "\"">>

\* The paths declared by DeclRs, DeclFile and DeclDotfile.
PathRs == <<"a", "/", "b", ".", "r", "s">>
PathZz == <<"c", "/", "d", ".", "z", "z">>
PathDot == <<"c", "/", "d", "/", ".", "r", "s">>

\* Number of lines of a free-form document (no artifact span).
MaxLines == 4
\* Number of lines inside an artifact span.
MaxInner == 2

SeqsUpTo(S, n) == UNION {[1..k -> S] : k \in 0..n}

PlainLines == {DeclRs, DeclRsAgain, CodeDef, CodeIndented, FenceTs}

OtherDeclLines == {DeclFile, DeclDotfile, DeclUp, DeclRoot, DeclBackslash}

AfterDeclLines == {CodeDef, Blank, FenceTs, DeclUp}

OpenTags == {OpenCode, OpenCodeGo, OpenMarkdown}

InnerLines == {DeclRs, DeclFile, CodeDef, AttrText}

\* One artifact span with up to n inner lines.
Spans(n) ==
  {<<o>> \o inner \o <<CloseTag>> : o \in OpenTags, inner \in SeqsUpTo(InnerLines, n)}

\* What may precede an artifact span: nothing, an opening fence (which hides
\* the span from the direct scan), or a declared file and an opening fence.
Preambles == {<<>>, <<FenceTs>>, <<DeclFile, CodeDef, FenceTs>>}

\* A second span of a document: one declared file.
SecondSpans == {<<o, DeclFile, CloseTag>> : o \in OpenTags}

\* One path declaration followed by one fenced block with the given body.
RoundTripDecls == {DeclRs, DeclFile}

BodyLines == {CodeDef, CodeIndented, Blank, DeclRsAgain, SpanLine}

RoundTripBodies == SeqsUpTo(BodyLines, MaxInner)

RoundTripLines(d, body) == <<d, FenceTs>> \o body \o <<Fence>>

\* A declaration, then a line that only resembles a fence marker or a
\* declaration, then content.
LookalikeLines == {FenceText, DeclUrl}

Lookalikes ==
  {<<DeclRs, l>> \o rest : l \in LookalikeLines,
                          rest \in SeqsUpTo({CodeDef, Fence}, MaxInner)}

\* Free-form documents; one declaration and what follows it; one artifact
\* span after a preamble; two artifact spans; one declaration and one fenced
\* block; lookalike lines.
DocLines ==
  SeqsUpTo(PlainLines, MaxLines)
  \cup Lookalikes
  \cup {RoundTripLines(d, body) : d \in RoundTripDecls, body \in RoundTripBodies}
  \cup {<<d>> \o rest : d \in OtherDeclLines \cup {DeclRs},
                         rest \in SeqsUpTo(AfterDeclLines, MaxInner + 1)}
  \cup {p \o s : p \in Preambles, s \in Spans(MaxInner)}
  \cup {p \o s \o t : p \in {<<>>, <<FenceTs>>}, s \in Spans(MaxInner - 1),
                       t \in SecondSpans}

Docs == {JoinNL(ls) : ls \in DocLines}

\* The output directory: the default of the command line, and a plain name.
DefaultOutput == <<".", "/", "e", "x", "t", "r", "a", "c", "t", "e", "d">>
OutputDirs == {DefaultOutput, <<"o">>}

(***************************************************************************)
(* The Extraction Coordinator: extractFiles.  It is synchronous; its loops *)
(* are taken one iteration at a time.                                      *)
(***************************************************************************)

VARIABLES
  content,            \* the document text
  outputDir,          \* options.outputDir
  pc,                 \* position in extractFiles
  files,              \* files
  processedPaths,     \* processedPaths
  regularBlocks,      \* regularBlocks
  match,              \* match of the current iteration of the artifact loop
  attributes,         \* attributes of that iteration
  language,           \* language of that iteration
  artifactBlocks,     \* artifactBlocks of that iteration
  artifactLastIndex,  \* ARTIFACT_REGEX.lastIndex (static, shared by all calls)
  attrsLastIndex,     \* ARTIFACT_ATTRS_REGEX.lastIndex (static)
  lines,              \* splitIntoCodeBlocks: lines
  i,                  \* splitIntoCodeBlocks: i, 1-based
  seg,                \* splitIntoCodeBlocks: its other local variables
  hasPrev,            \* an earlier call of extractFiles has returned
  prevFiles           \* what that call returned

\* The state of the write sink, writeFiles, and of the file system it acts
\* on.
VARIABLES
  overwrite,          \* options.overwrite
  errors,             \* errors
  fileIndex,          \* position in files of the loop variable file, 1-based
  sinkPc,             \* position in writeFiles
  disk,               \* the file at each resolved path, if any
  ioLog,              \* the file system calls made so far, with their outcomes
  reported            \* the errors printed by the end-of-run summary

sinkVars == <<overwrite, errors, fileIndex, sinkPc, disk, ioLog, reported>>

\* The state of the driver: the command line and the runs of process()
\* started by the watcher.
VARIABLES
  cliOverwrite,       \* options.overwrite of the command line
  runs                \* per run of process(): its position and its locals

driverVars == <<cliOverwrite, runs>>
segVars == <<lines, i, seg>>
loopVars == <<match, attributes, language, artifactBlocks>>
regexVars == <<artifactLastIndex, attrsLastIndex>>

vars ==
  <<content, outputDir, pc, files, processedPaths, regularBlocks, match,
    attributes, language, artifactBlocks, artifactLastIndex, attrsLastIndex,
    lines, i, seg, hasPrev, prevFiles, sinkVars, driverVars>>

Init ==
  /\ content \in Docs
  /\ outputDir \in OutputDirs
  /\ pc = "start"
  /\ files = <<>>
  /\ processedPaths = {}
  /\ regularBlocks = <<>>
  /\ match = NoArtifact
  /\ attributes = <<>>
  /\ language = <<>>
  /\ artifactBlocks = <<>>
  /\ artifactLastIndex = 0
  /\ attrsLastIndex = 0
  /\ lines = <<>>
  /\ i = 1
  /\ seg = SegInit
  /\ hasPrev = FALSE
  /\ prevFiles = <<>>
  /\ overwrite = FALSE
  /\ errors = <<>>
  /\ fileIndex = 1
  /\ sinkPc = "idle"
  /\ disk = <<>>
  /\ ioLog = <<>>
  /\ reported = <<>>
  /\ cliOverwrite = FALSE
  /\ runs = <<>>

\* extractFiles(content) is called: splitIntoCodeBlocks(content) begins.
ExtractStart ==
  /\ pc = "start"
  /\ pc' = "direct"
  /\ files' = <<>>
  /\ processedPaths' = {}
  /\ lines' = SplitNL(content)
  /\ i' = 1
  /\ seg' = SegInit
  /\ UNCHANGED <<content, outputDir, regularBlocks, loopVars, regexVars, hasPrev,
                 prevFiles, sinkVars, driverVars>>

\* One iteration of the for loop of splitIntoCodeBlocks, in the direct scan
\* or in the scan of an artifact span.
SegLine ==
  /\ pc \in {"direct", "artifact"}
  /\ i <= Len(lines)
  /\ seg' = SegStep(seg, lines[i])
  /\ i' = i + 1
  /\ UNCHANGED <<content, outputDir, pc, files, processedPaths, regularBlocks,
                 loopVars, regexVars, lines, hasPrev, prevFiles, sinkVars, driverVars>>

\* splitIntoCodeBlocks(content) returns; "Process code blocks with path
\* comments".
DirectDone ==
  /\ pc = "direct"
  /\ i > Len(lines)
  /\ \E blks \in {SegFinish(seg)} :
     \E r \in {AddBlocks(outputDir, blks, 1, FALSE, <<>>,
                         [files |-> files, processedPaths |-> processedPaths])} :
        /\ regularBlocks' = blks
        /\ files' = r.files
        /\ processedPaths' = r.processedPaths
  /\ pc' = "artifacts"
  /\ UNCHANGED <<content, outputDir, loopVars, regexVars, segVars, hasPrev,
                 prevFiles, sinkVars, driverVars>>

\* An iteration of "while ((match = ARTIFACT_REGEX.exec(content)) !== null)"
\* whose span passes the type test: splitIntoCodeBlocks(artifactContent)
\* begins.
ArtifactScan ==
  /\ pc = "artifacts"
  /\ \E m \in {ArtifactExec(content, artifactLastIndex)} :
     \E a \in {AttrLoop(AttrSource(m), attrsLastIndex, <<>>)} :
        /\ m.found
        /\ IsCodeArtifact(a.attributes)
        /\ match' = m
        /\ artifactLastIndex' = m.lastIndex
        /\ attributes' = a.attributes
        /\ attrsLastIndex' = a.lastIndex
        /\ language' = ArtifactLanguage(a.attributes, m.m1)
        /\ lines' = SplitNL(m.m1)
  /\ i' = 1
  /\ seg' = SegInit
  /\ artifactBlocks' = <<>>
  /\ pc' = "artifact"
  /\ UNCHANGED <<content, outputDir, files, processedPaths, regularBlocks,
                 hasPrev, prevFiles, sinkVars, driverVars>>

\* An iteration whose span fails the type test: nothing is scanned.
ArtifactSkip ==
  /\ pc = "artifacts"
  /\ \E m \in {ArtifactExec(content, artifactLastIndex)} :
     \E a \in {AttrLoop(AttrSource(m), attrsLastIndex, <<>>)} :
        /\ m.found
        /\ ~IsCodeArtifact(a.attributes)
        /\ match' = m
        /\ artifactLastIndex' = m.lastIndex
        /\ attributes' = a.attributes
        /\ attrsLastIndex' = a.lastIndex
  /\ language' = <<>>
  /\ artifactBlocks' = <<>>
  /\ UNCHANGED <<content, outputDir, pc, files, processedPaths, regularBlocks,
                 segVars, hasPrev, prevFiles, sinkVars, driverVars>>

\* splitIntoCodeBlocks(artifactContent) returns; the blocks of the span are
\* processed with the span's language as default.
ArtifactBlocks ==
  /\ pc = "artifact"
  /\ i > Len(lines)
  /\ \E blks \in {SegFinish(seg)} :
     \E r \in {AddBlocks(outputDir, blks, 1, TRUE, language,
                         [files |-> files, processedPaths |-> processedPaths])} :
        /\ artifactBlocks' = blks
        /\ files' = r.files
        /\ processedPaths' = r.processedPaths
  /\ pc' = "artifacts"
  /\ UNCHANGED <<content, outputDir, regularBlocks, match, attributes, language,
                 regexVars, segVars, hasPrev, prevFiles, sinkVars, driverVars>>

\* exec returns null: the loop ends and extractFiles returns files.
ArtifactDone ==
  /\ pc = "artifacts"
  /\ \E m \in {ArtifactExec(content, artifactLastIndex)} :
        /\ ~m.found
        /\ match' = m
        /\ artifactLastIndex' = m.lastIndex
  /\ pc' = "returned"
  /\ UNCHANGED <<content, outputDir, files, processedPaths, regularBlocks,
                 attributes, language, artifactBlocks, attrsLastIndex, segVars,
                 hasPrev, prevFiles, sinkVars, driverVars>>

\* The pipeline is run again on the same document and output directory.
Rerun ==
  /\ pc = "returned"
  /\ pc' = "start"
  /\ hasPrev' = TRUE
  /\ prevFiles' = files
  /\ UNCHANGED <<content, outputDir, files, processedPaths, regularBlocks,
                 loopVars, regexVars, segVars, sinkVars, driverVars>>

Next ==
  \/ ExtractStart
  \/ SegLine
  \/ DirectDone
  \/ ArtifactScan
  \/ ArtifactSkip
  \/ ArtifactBlocks
  \/ ArtifactDone
  \/ Rerun

Spec == Init /\ [][Next]_vars

(***************************************************************************)
(* The write sink: writeFiles(files).  Every await is one step; the        *)
(* outcome of a file system call is chosen by the file system.  The        *)
(* records are those extractFiles can return: their resolved paths differ. *)
(***************************************************************************)

\* Number of records of a batch.
MaxBatch == 2

SinkDeclared == {PathRs, PathZz, PathDot}
SinkContents == {CodeDef, <<"x">>}

SinkRecords(dir) ==
  {processCodeBlock(dir, [path |-> p, content |-> c], FALSE, <<>>) :
     p \in SinkDeclared, c \in SinkContents}

\* process() calls writeFiles only with at least one record.
Batches(dir) ==
  {b \in UNION {[1..n -> SinkRecords(dir)] : n \in 1..MaxBatch} :
     \A j, k \in 1..Len(b) : b[j].filePath = b[k].filePath => j = k}

Absent == [exists |-> FALSE, content |-> <<>>]
Existing == [exists |-> TRUE, content |-> <<"o", "l", "d">>]

Disks(dir) == [{pathJoin(dir, p) : p \in SinkDeclared} -> {Absent, Existing}]

SinkInit ==
  /\ outputDir \in OutputDirs
  /\ files \in Batches(outputDir)
  /\ disk \in Disks(outputDir)
  /\ overwrite \in BOOLEAN
  /\ errors = <<>>
  /\ fileIndex = 1
  /\ sinkPc = "mkdir"
  /\ ioLog = <<>>
  /\ reported = <<>>
  /\ cliOverwrite = FALSE
  /\ runs = <<>>
  /\ content = <<>>
  /\ pc = "returned"
  /\ processedPaths = {}
  /\ regularBlocks = <<>>
  /\ match = NoArtifact
  /\ attributes = <<>>
  /\ language = <<>>
  /\ artifactBlocks = <<>>
  /\ artifactLastIndex = 0
  /\ attrsLastIndex = 0
  /\ lines = <<>>
  /\ i = 1
  /\ seg = SegInit
  /\ hasPrev = FALSE
  /\ prevFiles = <<>>

extractVars ==
  <<content, outputDir, pc, files, processedPaths, regularBlocks, loopVars,
    regexVars, segVars, hasPrev, prevFiles>>

\* The loop variable file.
File == files[fileIndex]

\* A file system call on the current file and its outcome.
Call(op, result) == [op |-> op, path |-> File.filePath, result |-> result]

\* The for loop goes on to the next record, or ends.
NextFile ==
  /\ fileIndex' = fileIndex + 1
  /\ sinkPc' = IF fileIndex < Len(files) THEN "mkdir" ELSE "report"

\* catch (error): errors.push({path: file.filePath, error}).
Catch(op) ==
  /\ errors' = Append(errors, [path |-> File.filePath, error |-> op])
  /\ NextFile

\* await this.ensureDirectoryExists(file.filePath) resolves.
MkdirOk ==
  /\ sinkPc = "mkdir"
  /\ ioLog' = Append(ioLog, Call("mkdir", "ok"))
  /\ sinkPc' = IF overwrite THEN "write" ELSE "access"
  /\ UNCHANGED <<overwrite, errors, fileIndex, disk, reported, extractVars, driverVars>>

\* Mutant: a failure to create the directory ends the loop.
MkdirFailsAborts ==
  /\ sinkPc = "mkdir"
  /\ ioLog' = Append(ioLog, Call("mkdir", "error"))
  /\ errors' = Append(errors, [path |-> File.filePath, error |-> "mkdir"])
  /\ sinkPc' = "report"
  /\ UNCHANGED <<overwrite, fileIndex, disk, reported, extractVars, driverVars>>

\* await this.ensureDirectoryExists(file.filePath) rejects.
MkdirFails ==
  /\ sinkPc = "mkdir"
  /\ ioLog' = Append(ioLog, Call("mkdir", "error"))
  /\ Catch("mkdir")
  /\ UNCHANGED <<overwrite, disk, reported, extractVars, driverVars>>

\* await fs.access(file.filePath) resolves: the file exists; "Skipping...",
\* continue.
AccessFound ==
  /\ sinkPc = "access"
  /\ disk[File.filePath].exists
  /\ ioLog' = Append(ioLog, Call("access", "ok"))
  /\ NextFile
  /\ UNCHANGED <<overwrite, errors, disk, reported, extractVars, driverVars>>

\* await fs.access(file.filePath) rejects because there is no such file;
\* the inner catch goes on to the write.
AccessAbsent ==
  /\ sinkPc = "access"
  /\ ~disk[File.filePath].exists
  /\ ioLog' = Append(ioLog, Call("access", "ENOENT"))
  /\ sinkPc' = "write"
  /\ UNCHANGED <<overwrite, errors, fileIndex, disk, reported, extractVars, driverVars>>

\* await fs.access(file.filePath) rejects for another reason (permission
\* denied, a transient failure), whether the file exists or not; the inner
\* catch binds no error and goes on to the write all the same.
AccessFails ==
  /\ sinkPc = "access"
  /\ ioLog' = Append(ioLog, Call("access", "error"))
  /\ sinkPc' = "write"
  /\ UNCHANGED <<overwrite, errors, fileIndex, disk, reported, extractVars, driverVars>>

\* await fs.writeFile(file.filePath, file.content) resolves.
WriteOk ==
  /\ sinkPc = "write"
  /\ ioLog' = Append(ioLog, Call("writeFile", "ok"))
  /\ disk' = [disk EXCEPT ![File.filePath] = [exists |-> TRUE, content |-> File.content]]
  /\ NextFile
  /\ UNCHANGED <<overwrite, errors, reported, extractVars, driverVars>>

\* await fs.writeFile(file.filePath, file.content) rejects.
WriteFails ==
  /\ sinkPc = "write"
  /\ ioLog' = Append(ioLog, Call("writeFile", "error"))
  /\ Catch("writeFile")
  /\ UNCHANGED <<overwrite, disk, reported, extractVars, driverVars>>

\* After the loop: the errors are printed if there are any, and writeFiles
\* returns.
Report ==
  /\ sinkPc = "report"
  /\ reported' = errors
  /\ sinkPc' = "done"
  /\ UNCHANGED <<overwrite, errors, fileIndex, disk, ioLog, extractVars, driverVars>>

SinkNext ==
  \/ MkdirOk
  \/ MkdirFails
  \/ AccessFound
  \/ AccessAbsent
  \/ AccessFails
  \/ WriteOk
  \/ WriteFails
  \/ Report

SpecSink == SinkInit /\ [][SinkNext]_vars

(***************************************************************************)
(* The driver: the watcher callback of index.ts starts a run of process()  *)
(* on every change event.  The watcher is installed when the initial run   *)
(* has finished (processFile().then(watchFile)); the runs here are those   *)
(* the watcher starts.  A run is at the await it has issued; a step is the *)
(* completion of that await.  The file system calls of a run succeed, and  *)
(* fs.access reports what is on the disk; another writer may create files. *)
(***************************************************************************)

\* Number of change events.
MaxRuns == 2

RunIds == 1..MaxRuns

\* A run not started yet.
IdleRun ==
  [pc |-> "idle", overwrite |-> FALSE, fileIndex |-> 1, existingFiles |-> <<>>,
   answered |-> FALSE, shouldContinue |-> FALSE, touched |-> {}]

\* What the user may type at the prompt "(y/N)".
Answers == {<<"y">>, <<"Y", "e", "s">>, <<"n">>, <<"N", "o">>, <<>>}

\* answer.toLowerCase(), for the letters of Answers.
LowerChar(c) == IF c = "Y" THEN "y" ELSE IF c = "N" THEN "n" ELSE c
ToLowerCase(a) == [k \in 1..Len(a) |-> LowerChar(a[k])]

\* promptUser: resolve(answer.toLowerCase().startsWith('y')).
promptUser(a) == StartsWith(ToLowerCase(a), <<"y">>)

\* The records every run extracts from the input file: one or two files.
DriverBatches(dir) ==
  {b \in Batches(dir) : Len(b) <= 2 /\ \A j \in 1..Len(b) : b[j].content = <<"x">>}

\* A file created by another writer.
Foreign == [exists |-> TRUE, content |-> <<"e", "x", "t">>]

DriverInit ==
  /\ outputDir = DefaultOutput
  /\ files \in DriverBatches(outputDir)
  /\ disk \in Disks(outputDir)
  /\ cliOverwrite \in BOOLEAN
  /\ runs = [r \in RunIds |-> IdleRun]
  /\ overwrite = FALSE
  /\ errors = <<>>
  /\ fileIndex = 1
  /\ sinkPc = "idle"
  /\ ioLog = <<>>
  /\ reported = <<>>
  /\ content = <<>>
  /\ pc = "returned"
  /\ processedPaths = {}
  /\ regularBlocks = <<>>
  /\ match = NoArtifact
  /\ attributes = <<>>
  /\ language = <<>>
  /\ artifactBlocks = <<>>
  /\ artifactLastIndex = 0
  /\ attrsLastIndex = 0
  /\ lines = <<>>
  /\ i = 1
  /\ seg = SegInit
  /\ hasPrev = FALSE
  /\ prevFiles = <<>>

\* What a step of a run leaves alone besides the disk.
driverRest ==
  <<cliOverwrite, overwrite, errors, fileIndex, sinkPc, ioLog, reported, extractVars>>

\* The record a run is at.
RunFile(r) == files[runs[r].fileIndex]

\* The run is between its start and its end.
InProgress(r) == runs[r].pc \notin {"idle", "done", "cancelled"}

\* A change event: the callback calls processFile(), whatever the other runs
\* are doing; a new CodeExtractor is built from the command line options and
\* process() awaits fs.readFile.
Change(r) ==
  /\ runs[r].pc = "idle"
  /\ \A q \in RunIds : q < r => runs[q].pc # "idle"
  /\ runs' = [runs EXCEPT ![r] = [IdleRun EXCEPT !.pc = "read", !.overwrite = cliOverwrite]]
  /\ UNCHANGED <<disk, driverRest>>

\* fs.readFile resolves; extractFiles returns files, which are not empty;
\* checkExistingFiles awaits its first fs.access.
ReadDone(r) ==
  /\ runs[r].pc = "read"
  /\ runs' = [runs EXCEPT ![r].pc = "check"]
  /\ UNCHANGED <<disk, driverRest>>

\* The run after an iteration of checkExistingFiles that leaves existing
\* in existingFiles: the next iteration, or, after the last, the prompt when
\* a file exists and writeFiles when none does.
CheckedRun(run, existing) ==
  IF run.fileIndex < Len(files)
  THEN [run EXCEPT !.existingFiles = existing, !.fileIndex = @ + 1]
  ELSE [run EXCEPT !.existingFiles = existing, !.fileIndex = 1,
                   !.pc = IF existing # <<>> THEN "prompt" ELSE "mkdir"]

\* checkExistingFiles: fs.access resolves, the file exists.
CheckFound(r) ==
  /\ runs[r].pc = "check"
  /\ disk[RunFile(r).filePath].exists
  /\ runs' = [runs EXCEPT ![r] =
                CheckedRun(runs[r], Append(runs[r].existingFiles, RunFile(r).filePath))]
  /\ UNCHANGED <<disk, driverRest>>

\* checkExistingFiles: fs.access rejects, the file does not exist.
CheckAbsent(r) ==
  /\ runs[r].pc = "check"
  /\ ~disk[RunFile(r).filePath].exists
  /\ runs' = [runs EXCEPT ![r] = CheckedRun(runs[r], runs[r].existingFiles)]
  /\ UNCHANGED <<disk, driverRest>>

\* The user answers the overwrite prompt with yes: this.options.overwrite
\* becomes true and writeFiles begins.
AnswerYes(r) ==
  /\ runs[r].pc = "prompt"
  /\ \E a \in Answers : promptUser(a)
  /\ runs' = [runs EXCEPT ![r].answered = TRUE, ![r].shouldContinue = TRUE,
                          ![r].overwrite = TRUE, ![r].pc = "mkdir"]
  /\ UNCHANGED <<disk, driverRest>>

\* Mutant: after an answer other than yes writeFiles begins all the same.
AnswerNoWrites(r) ==
  /\ runs[r].pc = "prompt"
  /\ \E a \in Answers : ~promptUser(a)
  /\ runs' = [runs EXCEPT ![r].answered = TRUE, ![r].pc = "mkdir"]
  /\ UNCHANGED <<disk, driverRest>>

\* The user answers with anything else: "Operation cancelled by user.",
\* return.
AnswerNo(r) ==
  /\ runs[r].pc = "prompt"
  /\ \E a \in Answers : ~promptUser(a)
  /\ runs' = [runs EXCEPT ![r].answered = TRUE, ![r].pc = "cancelled"]
  /\ UNCHANGED <<disk, driverRest>>

\* writeFiles: ensureDirectoryExists resolves.
RunMkdir(r) ==
  /\ runs[r].pc = "mkdir"
  /\ runs' = [runs EXCEPT ![r].touched = @ \cup {RunFile(r).filePath},
                          ![r].pc = IF runs[r].overwrite THEN "write" ELSE "access"]
  /\ UNCHANGED <<disk, driverRest>>

\* The run after writeFiles is done with a record: the next record, or the
\* end of process().
SunkRun(run) ==
  IF run.fileIndex < Len(files)
  THEN [run EXCEPT !.fileIndex = @ + 1, !.pc = "mkdir"]
  ELSE [run EXCEPT !.pc = "done"]

\* writeFiles: fs.access resolves; "Skipping...", continue.
RunAccessFound(r) ==
  /\ runs[r].pc = "access"
  /\ disk[RunFile(r).filePath].exists
  /\ runs' = [runs EXCEPT ![r] = SunkRun(runs[r])]
  /\ UNCHANGED <<disk, driverRest>>

\* writeFiles: fs.access rejects; fs.writeFile is called.
RunAccessAbsent(r) ==
  /\ runs[r].pc = "access"
  /\ ~disk[RunFile(r).filePath].exists
  /\ runs' = [runs EXCEPT ![r].pc = "write"]
  /\ UNCHANGED <<disk, driverRest>>

\* writeFiles: fs.writeFile resolves; the file holds the record's content,
\* whatever was there.
RunWrite(r) ==
  /\ runs[r].pc = "write"
  /\ disk' = [disk EXCEPT ![RunFile(r).filePath] =
                 [exists |-> TRUE, content |-> RunFile(r).content]]
  /\ runs' = [runs EXCEPT ![r] = SunkRun(runs[r])]
  /\ UNCHANGED driverRest

\* Another writer creates a file at the path of a record.
ExternalCreate(p) ==
  /\ ~disk[p].exists
  /\ \E r \in RunIds : InProgress(r)
  /\ disk' = [disk EXCEPT ![p] = Foreign]
  /\ UNCHANGED <<runs, driverRest>>

DriverNext ==
  \/ \E r \in RunIds :
        \/ Change(r)
        \/ ReadDone(r)
        \/ CheckFound(r)
        \/ CheckAbsent(r)
        \/ AnswerYes(r)
        \/ AnswerNo(r)
        \/ RunMkdir(r)
        \/ RunAccessFound(r)
        \/ RunAccessAbsent(r)
        \/ RunWrite(r)
  \/ \E p \in {files[k].filePath : k \in 1..Len(files)} : ExternalCreate(p)

SpecDriver == DriverInit /\ [][DriverNext]_vars

(***************************************************************************)
(* Properties.                                                             *)
(***************************************************************************)

Range(f) == {f[k] : k \in DOMAIN f}

\* The resolved path of a block.
Resolved(block) == pathJoin(outputDir, block.path)

\* The first block of blks that resolves to p.
FirstResolving(blks, p) ==
  blks[CHOOSE k \in 1..Len(blks) :
         /\ Resolved(blks[k]) = p
         /\ \A j \in 1..(k - 1) : Resolved(blks[j]) # p]

\* The record of fs at the resolved path p.
FileAt(fs, p) == CHOOSE f \in Range(fs) : f.filePath = p

HasFileAt(fs, p) == \E f \in Range(fs) : f.filePath = p

IsPrefix(a, b) == Len(a) <= Len(b) /\ SubSeq(b, 1, Len(a)) = a

NoDuplicatePaths ==
  \A a, b \in 1..Len(files) : files[a].filePath = files[b].filePath => a = b

\* The step that ends the direct scan leaves, for every direct block, a
\* record at its resolved path with the content of the first direct block
\* resolving there.
DirectFirstWins ==
  (pc = "direct" /\ pc' = "artifacts") =>
    \A k \in 1..Len(regularBlocks') :
       /\ HasFileAt(files', Resolved(regularBlocks'[k]))
       /\ FileAt(files', Resolved(regularBlocks'[k])).content =
            FirstResolving(regularBlocks', Resolved(regularBlocks'[k])).content

\* The step that ends the scan of a span keeps every earlier record, and
\* leaves, for every block of the span whose resolved path was not produced
\* before, a record with the content of the span's first block resolving
\* there.
ArtifactFirstWins ==
  (pc = "artifact" /\ pc' = "artifacts") =>
    /\ IsPrefix(files, files')
    /\ \A k \in 1..Len(artifactBlocks') :
          /\ HasFileAt(files', Resolved(artifactBlocks'[k]))
          /\ ~HasFileAt(files, Resolved(artifactBlocks'[k])) =>
               FileAt(files', Resolved(artifactBlocks'[k])).content =
                 FirstResolving(artifactBlocks', Resolved(artifactBlocks'[k])).content

\* C1: the records of extractFiles never hold the same resolved path twice,
\* and where several fragments resolve to one path the record there carries
\* the content of the first of them in processing order (direct blocks, then
\* the blocks of each span in turn).
C1_UniqueFirstWins ==
  /\ []NoDuplicatePaths
  /\ [][DirectFirstWins /\ ArtifactFirstWins]_vars

\* C1 witness: extractFiles has returned one record for two direct blocks
\* with different declared paths, the same resolved path and different
\* contents.
C1_Witness ==
  /\ pc = "returned"
  /\ Len(files) = 1
  /\ \E j, k \in 1..Len(regularBlocks) :
        /\ j < k
        /\ regularBlocks[j].path # regularBlocks[k].path
        /\ Resolved(regularBlocks[j]) = Resolved(regularBlocks[k])
        /\ regularBlocks[j].content # regularBlocks[k].content
        /\ files[1].content = regularBlocks[j].content

\* A declared path with no "..", no leading "/" and no backslash.
SafePath(p) ==
  /\ ~Includes(p, <<".", ".">>)
  /\ ~StartsWith(p, <<"/">>)
  /\ ~Includes(p, <<"\\">>)

\* The resolved path p lies below the output directory.
InsideOutput(p) ==
  /\ IsPrefix(pathJoin(outputDir, <<>>) \o <<"/">>, p)
  /\ ~Includes(p, <<".", ".">>)

\* Every path the segmenter holds or has returned is safe, and every record
\* of the coordinator lies below the output directory.
FragmentPathsSafe ==
  /\ seg.currentPath # <<>> => SafePath(seg.currentPath)
  /\ \A b \in Range(seg.blocks) \cup Range(regularBlocks) \cup Range(artifactBlocks) :
        SafePath(b.path)
  /\ \A f \in Range(files) : InsideOutput(f.filePath)

\* No pattern of PATH_PATTERNS from pattern n on finds in the trimmed comment
\* line a candidate that passes isValidPath.
RECURSIVE NoValidCandidate(_, _)
CandidateFails(line, n, m) ==
  /\ ~(m.matched /\ isValidPath(m.path))
  /\ NoValidCandidate(line, n + 1)

NoValidCandidate(line, n) ==
  n > NumPatterns \/ CandidateFails(line, n, PatternExec(n, line, 1))

\* The loop body is about to run on a line that is not a fence marker.
AtLine == pc \in {"direct", "artifact"} /\ i <= Len(lines) /\ i' = i + 1

NotFence(line) == ~StartsWith(Trim(line), Fence)

\* A comment line outside a code block whose candidates all fail validation
\* leaves the current path and the finished blocks as they are.
InvalidCandidateIgnored ==
  (/\ AtLine
   /\ ~seg.inCodeBlock
   /\ NotFence(lines[i])
   /\ StartsWith(Trim(lines[i]), <<"/", "/">>)
   /\ NoValidCandidate(Trim(lines[i]), 1))
  => (seg'.currentPath = seg.currentPath /\ seg'.blocks = seg.blocks)

\* C2: every path of a fragment is free of "..", of a leading "/" and of
\* backslashes, every record's resolved path lies below the output
\* directory, and a comment line whose candidate path fails validation never
\* sets the current declared path.
C2_PathsValidated ==
  /\ []FragmentPathsSafe
  /\ [][InvalidCandidateIgnored]_vars

\* C2 witness: a traversal comment after a valid declaration was scanned as
\* an ordinary line of the valid declaration's file.
C2_Witness ==
  /\ pc = "returned"
  /\ content = JoinNL(<<DeclRs, DeclUp, CodeDef>>)
  /\ Len(regularBlocks) = 1
  /\ regularBlocks[1].path = <<"a", "/", "b", ".", "r", "s">>
  /\ regularBlocks[1].content = JoinNL(<<DeclUp, CodeDef>>)
  /\ Len(files) = 1

\* A line inside an open code block is only appended to the code block
\* buffer: the current path, the finished blocks and the content of the
\* block in progress stay as they are.
FencedLineOnlyBuffered ==
  (AtLine /\ seg.inCodeBlock /\ NotFence(lines[i]))
  => /\ seg'.currentPath = seg.currentPath
     /\ seg'.blocks = seg.blocks
     /\ seg'.currentContent = seg.currentContent
     /\ seg'.inCodeBlock
     /\ seg'.codeBlockContent = seg.codeBlockContent \o lines[i] \o <<"\n">>

\* C3: inside a fenced block the classifier is not applied; a line there,
\* even one with the form of a path declaration, is only appended to the
\* fenced buffer.
C3_NoClassifyInFence == [][FencedLineOnlyBuffered]_vars

\* C3 witness: a line with the form of a declaration of another path was
\* scanned inside a code block that follows a declaration.
C3_Witness ==
  /\ pc = "direct"
  /\ i > 3
  /\ lines[1] = DeclRs
  /\ lines[i - 1] = DeclRsAgain
  /\ parseComment(lines[i - 1]).isPath
  /\ parseComment(lines[i - 1]).path # seg.currentPath
  /\ seg.inCodeBlock
  /\ seg.currentPath = <<"a", "/", "b", ".", "r", "s">>
  /\ seg.codeBlockContent = DeclRsAgain \o <<"\n">>
  /\ seg.blocks = <<>>

\* The opening tag of a matched span, and the attributes it holds.
OpeningTag(m) == SubSeq(m.m0, 1, IndexOf(m.m0, <<">">>, 1))

OpeningAttributes(m) == AttrLoop(OpeningTag(m), 0, <<>>).attributes

TextMarkdown == <<"t", "e", "x", "t", "/", "m", "a", "r", "k", "d", "o", "w", "n">>

\* The current match is a span whose opening tag has type="text/markdown".
MarkdownSpan ==
  /\ match.found
  /\ TypeAttr \in DOMAIN OpeningAttributes(match)
  /\ OpeningAttributes(match)[TypeAttr] = TextMarkdown

\* C6: a span whose opening tag has type="text/markdown" is never scanned
\* and yields no fragment, whatever its inner text holds.
C6_MarkdownSpanSkipped ==
  MarkdownSpan => (pc # "artifact" /\ artifactBlocks = <<>>)

\* The declared path of a declaration line of RoundTripDecls.
DeclaredPath(d) == IF d = DeclRs THEN PathRs ELSE PathZz

IsBlankLine(line) == Trim(line) = <<>>

\* The lines of a body without its leading and trailing blank lines.
RECURSIVE DropBlankHead(_)
DropBlankHead(ls) ==
  IF ls # <<>> /\ IsBlankLine(Head(ls)) THEN DropBlankHead(Tail(ls)) ELSE ls

RECURSIVE DropBlankTail(_)
DropBlankTail(ls) ==
  IF ls # <<>> /\ IsBlankLine(ls[Len(ls)])
  THEN DropBlankTail(SubSeq(ls, 1, Len(ls) - 1))
  ELSE ls

WithoutBlankEnds(ls) == DropBlankTail(DropBlankHead(ls))

\* extractFiles has returned for the document made of declaration d and one
\* fenced block with body.
Returned(d, body) ==
  pc = "returned" /\ content = JoinNL(RoundTripLines(d, body))

\* The one direct fragment of a round trip, with the content expected.
OneFragment(d, expected) ==
  /\ Len(regularBlocks) = 1
  /\ regularBlocks[1].path = DeclaredPath(d)
  /\ regularBlocks[1].content = expected
  /\ Len(files) >= 1
  /\ files[1].filePath = pathJoin(outputDir, DeclaredPath(d))
  /\ files[1].content = expected

Idempotent ==
  /\ pc \in {"start", "returned"} => (artifactLastIndex = 0 /\ attrsLastIndex = 0)
  /\ (pc = "returned" /\ hasPrev) => files = prevFiles

\* C8: two runs in succession on the same document and output directory
\* return the same records, and the scan positions of the two global
\* regular expressions are at 0 whenever extractFiles returns.
C8_Idempotent == Idempotent

\* C8 witness: the second run has returned, with a record from an artifact
\* span after a record from the direct scan.
C8_Witness ==
  /\ pc = "returned"
  /\ hasPrev
  /\ Len(files) = 2
  /\ files[2].language = <<"g", "o">>
  /\ artifactBlocks # <<>>

EndsWith(s, suffix) ==
  Len(s) >= Len(suffix) /\ SubSeq(s, Len(s) - Len(suffix) + 1, Len(s)) = suffix

DotRs == <<".", "r", "s">>
Rust == <<"r", "u", "s", "t">>

\* No language of the table has the extension ext.
Unmapped(ext) == \A k \in 1..Len(LANGUAGE_EXTENSIONS) : LANGUAGE_EXTENSIONS[k][2] # ext

\* C9 as stated: every record whose resolved path ends in .rs has language
\* rust, every record whose extension is absent from the table has txt.
C9_LanguageByPath ==
  \A f \in Range(files) :
     /\ EndsWith(f.filePath, DotRs) => f.language = Rust
     /\ Unmapped(pathExtname(f.filePath)) => f.language = Txt

\* The records of the direct scan have the language of their extension
\* (path.extname: empty for a file name that starts with its only dot).
DirectLanguages ==
  (pc = "direct" /\ pc' = "artifacts") =>
    \A f \in Range(files') :
       /\ pathExtname(f.filePath) = DotRs => f.language = Rust
       /\ Unmapped(pathExtname(f.filePath)) => f.language = Txt

\* The records added for a span have the span's language attribute when it
\* is not empty, else the language sniffed from the span's inner text.
ArtifactLanguages ==
  (pc = "artifact" /\ pc' = "artifacts") =>
    \A k \in (Len(files) + 1)..Len(files') :
       files'[k].language =
         IF LanguageAttr \in DOMAIN attributes /\ attributes[LanguageAttr] # <<>>
         THEN attributes[LanguageAttr]
         ELSE detectLanguage(match.m1)

\* C9 amended: direct records take their language from the extension of
\* the path; records from a span take the span's language.
C9_LanguageBySource == [][DirectLanguages /\ ArtifactLanguages]_vars

\* C9 witness: a direct record with an unmapped extension and txt, then a
\* record from a span with language go whose path ends in .rs.
C9_Witness ==
  /\ pc = "returned"
  /\ Len(files) = 2
  /\ EndsWith(files[1].filePath, <<".", "z", "z">>)
  /\ files[1].language = Txt
  /\ EndsWith(files[2].filePath, DotRs)
  /\ files[2].language = <<"g", "o">>
  /\ attributes[LanguageAttr] = <<"g", "o">>

\* The resolved paths of the direct blocks.
DirectPaths == {Resolved(b) : b \in Range(regularBlocks)}

\* The index of the first direct block that resolves to p.
FirstIndex(p) ==
  CHOOSE k \in 1..Len(regularBlocks) :
    /\ Resolved(regularBlocks[k]) = p
    /\ \A j \in 1..(k - 1) : Resolved(regularBlocks[j]) # p

\* Once the direct scan is done, the records of the direct blocks come
\* first, in document order, each with the content and the language of the
\* first direct block at its path; the records after them are at other
\* paths.
DirectBeforeArtifact ==
  pc \in {"artifacts", "artifact", "returned"} =>
    /\ Len(files) >= Cardinality(DirectPaths)
    /\ \A k \in 1..Len(files) :
          (k <= Cardinality(DirectPaths)) <=> (files[k].filePath \in DirectPaths)
    /\ \A k \in 1..Cardinality(DirectPaths) :
          /\ files[k].content = regularBlocks[FirstIndex(files[k].filePath)].content
          /\ files[k].language =
               detectLanguageFromPath(regularBlocks[FirstIndex(files[k].filePath)].path)
    /\ \A j, k \in 1..Cardinality(DirectPaths) :
          j < k => FirstIndex(files[j].filePath) < FirstIndex(files[k].filePath)

\* C10: the result lists the direct records, in document order, before the
\* records of artifact spans, and at a path produced by both the direct
\* record survives.
C10_DirectFirst == DirectBeforeArtifact

\* C10 witness: a direct block and a block of a span with language go
\* resolve to one path with different contents; the record there is the
\* direct one.
C10_Witness ==
  /\ pc = "returned"
  /\ language = <<"g", "o">>
  /\ \E b \in Range(regularBlocks), a \in Range(artifactBlocks) :
        /\ Resolved(a) = Resolved(b)
        /\ a.content # b.content
        /\ FileAt(files, Resolved(b)).content = b.content
        /\ FileAt(files, Resolved(b)).language = Rust

\* The resolved paths of the records, in order, and the paths of calls.
PathsOf(fs) == [j \in 1..Len(fs) |-> fs[j].filePath]
CallPaths(cs) == [j \in 1..Len(cs) |-> cs[j].path]

\* The calls of the log with the operation op.
CallsOf(op) == SelectSeq(ioLog, LAMBDA c : c.op = op)

\* The number of records the loop has started on.
Started ==
  IF sinkPc \in {"report", "done"} THEN Len(files)
  ELSE IF sinkPc = "mkdir" THEN fileIndex - 1
  ELSE fileIndex

\* The position in files of the record a call is for.
RecordOf(c) == CHOOSE j \in 1..Len(files) : files[j].filePath = c.path

\* The loop has started on the records in their order, once each: one
\* directory creation per record, at most one existence check and one
\* write, and no call for a record after a call for a later one.
AttemptsInOrder ==
  /\ CallPaths(CallsOf("mkdir")) = SubSeq(PathsOf(files), 1, Started)
  /\ \A j, k \in 1..Len(ioLog) :
        /\ j < k => RecordOf(ioLog[j]) <= RecordOf(ioLog[k])
        /\ (j # k /\ ioLog[j].path = ioLog[k].path) => ioLog[j].op # ioLog[k].op

\* The failed directory creations and writes.
Failed(c) == c.result = "error" /\ c.op \in {"mkdir", "writeFile"}

\* Every failed directory creation or write is recorded for its path, in
\* order, and nothing else is.
FailuresRecorded ==
  /\ Len(errors) = Len(SelectSeq(ioLog, Failed))
  /\ \A j \in 1..Len(errors) :
        /\ errors[j].path = SelectSeq(ioLog, Failed)[j].path
        /\ errors[j].error = SelectSeq(ioLog, Failed)[j].op

\* C4: writeFiles attempts every record once, in order, records each failed
\* directory creation or write for the record's path and goes on to the
\* next record; when it returns it has attempted them all.
C4_EveryRecordAttempted ==
  /\ sinkPc \in {"mkdir", "access", "write", "report", "done"}
  /\ AttemptsInOrder
  /\ FailuresRecorded

\* C4 witness: writeFiles has returned; the directory of the first record
\* could not be created, which is the one error reported, and the second
\* record was written.
C4_Witness ==
  /\ sinkPc = "done"
  /\ Len(files) = 2
  /\ Len(errors) = 1
  /\ errors[1].path = files[1].filePath
  /\ reported = errors
  /\ disk[files[2].filePath] = [exists |-> TRUE, content |-> files[2].content]

\* Under the skip policy a file that exists at the path of the record in
\* progress is left as it is, and the step that finds it records no error.
SkipLeavesFile ==
  (/\ sinkPc \in {"mkdir", "access", "write"}
   /\ ~overwrite
   /\ disk[File.filePath].exists)
  => /\ disk' = disk
     /\ sinkPc = "access" => errors' = errors

\* A write that succeeds leaves the content of the record, verbatim, at
\* its resolved path.
WriteVerbatim ==
  (sinkPc = "write" /\ errors' = errors /\ fileIndex' = fileIndex + 1)
  => disk'[File.filePath] = [exists |-> TRUE, content |-> File.content]

\* C5 as stated: with overwrite disabled a file that exists at the resolved
\* path of a record is left unchanged and the skip is no error; in every
\* other case the content of the record is written verbatim.
C5_SkipOrWrite == [][SkipLeavesFile /\ WriteVerbatim]_vars

\* C11 as stated: every fragment the segmenter emits, when a new declaration
\* arrives and at end of input, has non-empty content.
C11_NonEmptyContent ==
  \A b \in Range(seg.blocks) \cup Range(regularBlocks) \cup Range(artifactBlocks) :
     b.content # <<>>

\* The declaration lines that declare a path.
PathDecls == {DeclRs, DeclFile, DeclDotfile}

\* The text between a declaration and the end of the scanned text, with the
\* fence delimiter lines removed and without leading and trailing blank
\* lines.
SpanText(rest) == JoinNL(WithoutBlankEnds(SelectSeq(rest, NotFence)))

\* C12 as stated: the content of a fragment is the text between its
\* declaration and the end of the scanned text, fence delimiter lines
\* removed, leading and trailing blank lines trimmed, no line dropped.
C12_ContentComplete ==
  (pc = "returned" /\ regularBlocks # <<>>) =>
    \A d \in PathDecls, rest \in SeqsUpTo(AfterDeclLines, MaxInner + 1) :
       content = JoinNL(<<d>> \o rest) => regularBlocks[1].content = SpanText(rest)

\* A line that consists solely of a fence marker: three backquotes,
\* optionally followed by a language tag.
PureFenceText(t) == StartsWith(t, Fence) /\ RunWord(t, 4) = Len(t)

PureFence(line) == PureFenceText(Trim(line))

\* C13 as stated: a line that does not consist solely of a fence marker
\* leaves the fenced-block flag as it is.
C13_OnlyPureFenceToggles ==
  [][(AtLine /\ ~PureFence(lines[i])) => seg'.inCodeBlock = seg.inCodeBlock]_vars

\* The attributes of the current match are those of its opening tag.
AttributesFromOpeningTag ==
  (match.found /\ pc \in {"artifacts", "artifact"}) =>
    attributes = OpeningAttributes(match)

\* C14 as stated: the attribute mapping of a span is built only from the
\* name="value" pairs of its opening tag.
C14_OpeningTagOnly == AttributesFromOpeningTag

\* Some pattern of PATH_PATTERNS matches the trimmed line at its leading
\* "//".
Anchored(t) == \E n \in 1..NumPatterns : PatternAt(n, t, 1).matched

\* C15 as stated: outside a code block, a line on which no recognised form
\* is anchored at the leading "//" does not declare a path.
C15_AnchoredOnly ==
  [][(AtLine /\ ~seg.inCodeBlock /\ NotFence(lines[i]) /\ ~Anchored(Trim(lines[i])))
       => seg'.currentPath = seg.currentPath]_vars

\* C16 as stated: a failure of the existence check for a reason other than
\* the file being absent is recorded for that file among the errors.
C16_AccessFailuresCollected ==
  \A k \in 1..Len(ioLog) :
     (ioLog[k].op = "access" /\ ioLog[k].result = "error") =>
       \E j \in 1..Len(errors) :
          errors[j].path = ioLog[k].path /\ errors[j].error = "access"

\* C17 as stated: with the overwrite option of the command line enabled, a
\* run never waits for a decision of the user and is never cancelled by
\* one.
C17_OverwriteWithoutPrompt ==
  cliOverwrite => \A r \in DOMAIN runs : runs[r].pc \notin {"prompt", "cancelled"}

\* C18 as stated: at most one run of the pipeline is in progress at a time,
\* and at most one file write is in flight.
C18_OneRunAtATime ==
  /\ Cardinality({r \in DOMAIN runs : InProgress(r)}) <= 1
  /\ Cardinality({r \in DOMAIN runs : runs[r].pc = "write"}) <= 1

\* The user of run r was asked and did not answer yes.
Declined(r) == runs[r].answered /\ ~runs[r].shouldContinue

\* A run whose user declined was asked because a file exists, has ended,
\* and has created no directory and written no file.
DeclinedTouchesNothing ==
  \A r \in DOMAIN runs :
     Declined(r) =>
       /\ runs[r].existingFiles # <<>>
       /\ runs[r].pc = "cancelled"
       /\ runs[r].touched = {}

\* The step in which the user of run r declines, and every step after it,
\* is no step of the write sink for run r: the disk changes only by others.
DeclinedStays ==
  \A r \in DOMAIN runs :
     (runs'[r] # runs[r] /\ (Declined(r) \/ (runs'[r].answered /\ ~runs'[r].shouldContinue)))
       => (disk' = disk /\ runs'[r].pc = "cancelled")

\* C19: when the pre-flight check finds an existing file and the user does
\* not answer yes, the run ends without calling the write sink: it creates
\* no directory and writes no file, whatever the overwrite option.
C19_DeclinedWritesNothing ==
  /\ []DeclinedTouchesNothing
  /\ [][DeclinedStays]_vars

\* C19 witness: with the overwrite option enabled, a run over two records,
\* one of which existed, was declined; the other record's file is absent.
C19_Witness ==
  /\ cliOverwrite
  /\ Len(files) = 2
  /\ \E r \in DOMAIN runs :
        /\ Declined(r)
        /\ runs[r].pc = "cancelled"
        /\ runs[r].existingFiles = <<files[1].filePath>>
        /\ ~disk[files[2].filePath].exists

\* C20 as stated: a write of a run with overwrite disabled and without
\* confirmation never replaces the contents of a file that exists when the
\* write is performed.
C20_NoReplaceWithoutConfirmation ==
  [][\A r \in DOMAIN runs :
       (/\ runs[r].pc = "write"
        /\ runs'[r] # runs[r]
        /\ ~runs[r].overwrite
        /\ disk[RunFile(r).filePath].exists)
       => disk'[RunFile(r).filePath] = disk[RunFile(r).filePath]]_vars

====
